---- MODULE Spec2Model ----
(***************************************************************************)
(* State-machine model of the repository analysis of valegit's RepoPreview *)
(* component (src/src/components/RepoPreview.js).  The file holds two      *)
(* variants of the component: the sequential one (lines 1-314, one await   *)
(* after the other) and the Promise.all one (lines 317-500).  The variable *)
(* variant says which of the two is running.                               *)
(***************************************************************************)
EXTENDS Integers, Sequences, FiniteSets, TLC

VARIABLES
    variant,        \* "seq" (lines 1-314) or "all" (lines 317-500)
    repoUrl,        \* useState(''): the text of the input field, a sequence of characters
    loading,        \* useState(false)
    error,          \* useState(''): the message shown, "" when none
    previewData,    \* useState(null): NoProfile, or the profile shown
    pc,             \* position of handlePreview / analyzeRepository
    net,            \* per endpoint: "none", "pending", "ok" or "failed"
    issued,         \* per endpoint: how many requests were issued
    ref,            \* the locals owner and repo of analyzeRepository
    repoData,       \* local repoData
    contents,       \* local contents (file listing)
    commits,        \* local commits
    pullRequests,   \* local pullRequests (its length)
    contributors,   \* local contributors (its length)
    classification, \* locals projectType and techStack
    codeQuality,    \* local codeQuality
    packageData,    \* local packageData of analyzeDependencies
    outcome         \* how analyzeRepository ended: nothing yet, a profile, or an error

vars == <<variant, repoUrl, loading, error, previewData, pc, net, issued, ref,
          repoData, contents, commits, pullRequests, contributors,
          classification, codeQuality, packageData, outcome>>

(***************************************************************************)
(* Bounds of the model.                                                    *)
(***************************************************************************)
MaxUrlLen == 6      \* longest URL typed, in characters
MaxFiles == 2       \* most entries of a file listing
MaxCommits == 2     \* most commits of a commit list
MaxCount == 1       \* most pull requests / contributors returned
RandSteps == 5      \* Math.random() takes the values k / RandSteps, k < RandSteps
MaxKeys == 50       \* most dependency names of a package.json

Min(a, b) == IF a <= b THEN a ELSE b

(***************************************************************************)
(* URLs and parseRepoUrl.  A URL is a sequence of characters; "/" is the   *)
(* separator and "a" stands for any other character.                       *)
(***************************************************************************)
UrlChars == {"/", "a"}

Urls == UNION {[1..n -> UrlChars] : n \in 0..MaxUrlLen}

\* The value of a destructured array element that does not exist.
Undefined == <<"undefined">>

RECURSIVE Split(_)
\* String.prototype.split('/'): the segments between the separators; the
\* empty string gives one empty segment.
Split(s) ==
    IF \A i \in 1..Len(s) : s[i] # "/"
    THEN <<s>>
    ELSE LET i == CHOOSE k \in 1..Len(s) :
                      s[k] = "/" /\ \A j \in 1..(k - 1) : s[j] # "/"
         IN  <<SubSeq(s, 1, i - 1)>> \o Split(SubSeq(s, i + 1, Len(s)))

\* const [, , , owner, repo] = parts: a missing element is undefined.
Element(parts, i) == IF i <= Len(parts) THEN parts[i] ELSE Undefined

\* parseRepoUrl (sequential variant): destructuring an array never throws,
\* so the catch branch is never taken and the pair is returned as it is.
parseRepoUrl(url) ==
    [owner |-> Element(Split(url), 4), repo |-> Element(Split(url), 5)]

\* !x for a string or undefined.
Falsy(x) == x = Undefined \/ x = <<>>

\* Promise.all variant: if (!owner || !repo) throw new Error('Invalid repository URL').
InvalidReference(r) == Falsy(r.owner) \/ Falsy(r.repo)

NoRef == [owner |-> <<>>, repo |-> <<>>]

\* The URLs typed in the runs of the whole analysis: the empty field, a
\* well-formed URL and one with four segments only.
GoodUrl == <<"/", "/", "/", "a", "/", "a">>
ShortUrl == <<"/", "/", "/", "a">>
SampleUrls == {<<>>, GoodUrl, ShortUrl}

(***************************************************************************)
(* Requests.                                                               *)
(***************************************************************************)
PrimaryEndpoints == {"repo", "contents", "commits", "pulls", "contributors"}
Endpoints == PrimaryEndpoints \cup {"commits100", "manifest"}

\* How a request ends: 2xx with the expected JSON; a non-2xx response; a
\* rejected fetch promise (transport failure); 2xx with a body json() rejects.
Outcomes == {"ok", "notok", "reject", "badjson"}

\* response.ok
ResponseOk(o) == o \in {"ok", "badjson"}

\* What becomes of the request itself.
Status(o) == IF o = "ok" THEN "ok" ELSE "failed"

\* The message of the error an awaited primary fetch ends in, "" when none.
\* Sequential variant: lines 119-141.
SeqMessage ==
    [repo |-> "Repository not found",
     contents |-> "Cannot access repository contents",
     commits |-> "Cannot access commit history",
     pulls |-> "Cannot access pull requests",
     contributors |-> "Cannot access contributors"]

\* Promise.all variant: `Failed to fetch ${endpoint}`.
AllMessage ==
    [repo |-> "Failed to fetch ",
     contents |-> "Failed to fetch contents",
     commits |-> "Failed to fetch commits",
     pulls |-> "Failed to fetch pulls?state=all",
     contributors |-> "Failed to fetch contributors"]

\* FetchError without the checks of response.ok.
FetchError_NoOkCheck(messages, ep, o) ==
    CASE o = "reject" -> "Failed to fetch"
      [] o = "badjson" -> "Unexpected token"
      [] OTHER -> ""

\* The error a primary fetch with outcome o throws ("" when it throws none):
\* the transport's TypeError, the code's own message on a non-2xx response,
\* or json()'s SyntaxError.
FetchError(messages, ep, o) ==
    CASE o = "reject" -> "Failed to fetch"
      [] ~ResponseOk(o) -> messages[ep]
      [] o = "badjson" -> "Unexpected token"
      [] OTHER -> ""

(***************************************************************************)
(* File names.  A name is a sequence of chunks; toLowerCase maps each      *)
(* chunk, and includes(x) on a name looks for the chunk x.                 *)
(***************************************************************************)
LowerChunk(c) ==
    CASE c = "Package.json" -> "package.json"
      [] c = "React" -> "react"
      [] c = "Gemfile" -> "gemfile"
      [] c = "Dockerfile" -> "dockerfile"
      [] c = "README" -> "readme"
      [] OTHER -> c

\* name.toLowerCase()
toLowerCase(name) == [i \in 1..Len(name) |-> LowerChunk(name[i])]

\* String.prototype.includes: the chunk occurs in the name.
StrIncludes(name, chunk) == \E i \in 1..Len(name) : name[i] = chunk

\* Array.prototype.includes: an element equal to the whole name.
ArrIncludes(names, name) == \E i \in 1..Len(names) : names[i] = name

FileNames ==
    { <<"package.json">>, <<"Package.json">>, <<"next.config.js">>,
      <<"react">>, <<"React", "-app">>, <<"vue", ".config.js">>,
      <<"angular.json">>, <<"requirements.txt">>, <<"setup.py">>,
      <<"Gemfile">>, <<"go.mod">>, <<"Dockerfile">>, <<"docker-compose.yml">>,
      <<"kubernetes">>, <<"index.html">>, <<"tailwind.config.js">>,
      <<"schema", ".sql">>, <<"README", ".md">>,
      <<"cargo.toml">>, <<"composer.json">>, <<"pom.xml">> }

FileEntries == [name : FileNames, download_url : {TRUE}]

\* Every listing of at most MaxFiles entries, in any order, repeats allowed.
AllListings == UNION {[1..n -> FileEntries] : n \in 0..MaxFiles}

\* files.map(file => file.name.toLowerCase())
fileNamesOf(files) == [i \in 1..Len(files) |-> toLowerCase(files[i].name)]

\* ProjectTypeOfNames with the generic manifest rule returning before the
\* framework rules are tried.
ProjectTypeOfNames_GenericFirst(fileNames) ==
    CASE ArrIncludes(fileNames, <<"package.json">>) -> "Node.js Project"
      [] ArrIncludes(fileNames, <<"requirements.txt">>)
         \/ ArrIncludes(fileNames, <<"setup.py">>) -> "Python Project"
      [] ArrIncludes(fileNames, <<"gemfile">>) -> "Ruby Project"
      [] ArrIncludes(fileNames, <<"dockerfile">>) -> "Docker Project"
      [] ArrIncludes(fileNames, <<"index.html">>) -> "Static Website"
      [] OTHER -> "Unknown Project Type"

\* ProjectTypeOfNames with the Ruby rule tried before the Python rule.
ProjectTypeOfNames_RubyFirst(fileNames) ==
    IF ArrIncludes(fileNames, <<"package.json">>)
    THEN CASE \E i \in 1..Len(fileNames) : StrIncludes(fileNames[i], "react")
                -> "React Application"
           [] \E i \in 1..Len(fileNames) : StrIncludes(fileNames[i], "vue")
                -> "Vue Application"
           [] ArrIncludes(fileNames, <<"angular.json">>) -> "Angular Application"
           [] OTHER -> "Node.js Project"
    ELSE CASE ArrIncludes(fileNames, <<"gemfile">>) -> "Ruby Project"
           [] ArrIncludes(fileNames, <<"requirements.txt">>)
              \/ ArrIncludes(fileNames, <<"setup.py">>) -> "Python Project"
           [] ArrIncludes(fileNames, <<"dockerfile">>) -> "Docker Project"
           [] ArrIncludes(fileNames, <<"index.html">>) -> "Static Website"
           [] OTHER -> "Unknown Project Type"

\* determineProjectType of the sequential variant (lines 85-99), on the
\* lower-cased names.
ProjectTypeOfNames(fileNames) ==
    IF ArrIncludes(fileNames, <<"package.json">>)
    THEN CASE \E i \in 1..Len(fileNames) : StrIncludes(fileNames[i], "react")
                -> "React Application"
           [] \E i \in 1..Len(fileNames) : StrIncludes(fileNames[i], "vue")
                -> "Vue Application"
           [] ArrIncludes(fileNames, <<"angular.json">>) -> "Angular Application"
           [] OTHER -> "Node.js Project"
    ELSE CASE ArrIncludes(fileNames, <<"requirements.txt">>)
              \/ ArrIncludes(fileNames, <<"setup.py">>) -> "Python Project"
           [] ArrIncludes(fileNames, <<"gemfile">>) -> "Ruby Project"
           [] ArrIncludes(fileNames, <<"dockerfile">>) -> "Docker Project"
           [] ArrIncludes(fileNames, <<"index.html">>) -> "Static Website"
           [] OTHER -> "Unknown Project Type"

determineProjectType(files) == ProjectTypeOfNames(fileNamesOf(files))

\* analyzeTechStack with the rules chained by else: only the first indicator
\* that matches adds its label.
analyzeTechStack_FirstMatchOnly(files) ==
    LET fileNames == fileNamesOf(files)
    IN  CASE ArrIncludes(fileNames, <<"package.json">>) -> <<"Node.js">>
          [] ArrIncludes(fileNames, <<"requirements.txt">>) -> <<"Python">>
          [] ArrIncludes(fileNames, <<"docker-compose.yml">>) -> <<"Docker">>
          [] ArrIncludes(fileNames, <<"kubernetes">>) -> <<"Kubernetes">>
          [] ArrIncludes(fileNames, <<"tailwind.config.js">>) -> <<"Tailwind CSS">>
          [] \E i \in 1..Len(fileNames) : StrIncludes(fileNames[i], ".sql") -> <<"SQL">>
          [] OTHER -> <<>>

\* analyzeTechStack (lines 101-113): Array.from of the Set, which keeps the
\* order of insertion.
analyzeTechStack(files) ==
    LET fileNames == fileNamesOf(files)
        label(b, l) == IF b THEN <<l>> ELSE <<>>
    IN  label(ArrIncludes(fileNames, <<"package.json">>), "Node.js")
        \o label(ArrIncludes(fileNames, <<"requirements.txt">>), "Python")
        \o label(ArrIncludes(fileNames, <<"docker-compose.yml">>), "Docker")
        \o label(ArrIncludes(fileNames, <<"kubernetes">>), "Kubernetes")
        \o label(ArrIncludes(fileNames, <<"tailwind.config.js">>), "Tailwind CSS")
        \o label(\E i \in 1..Len(fileNames) : StrIncludes(fileNames[i], ".sql"), "SQL")

\* The type and techStack of the Promise.all variant (lines 345-352, 360-362).
ProjectTypeAll(files) ==
    LET fileNames == fileNamesOf(files)
    IN  CASE ArrIncludes(fileNames, <<"package.json">>) -> "Node.js Project"
          [] ArrIncludes(fileNames, <<"requirements.txt">>) -> "Python Project"
          [] ArrIncludes(fileNames, <<"gemfile">>) -> "Ruby Project"
          [] OTHER -> "Other"

TechStackAll(files) ==
    LET fileNames == fileNamesOf(files)
        label(b, l) == IF b THEN <<l>> ELSE <<>>
    IN  label(ArrIncludes(fileNames, <<"package.json">>), "Node.js")
        \o label(ArrIncludes(fileNames, <<"requirements.txt">>), "Python")
        \o label(ArrIncludes(fileNames, <<"docker-compose.yml">>), "Docker")
        \o label(ArrIncludes(fileNames, <<"tailwind.config.js">>), "Tailwind CSS")
        \o label(\E i \in 1..Len(fileNames) : StrIncludes(fileNames[i], ".sql"), "SQL")

NoClassification == [type |-> "", techStack |-> <<>>]

\* determineProjectType of the simpler variant (part_000, lines 46-58): files
\* are the names, already lower-cased; the React rule is files.includes('react').
determineProjectTypeSimple(files) ==
    IF ArrIncludes(files, <<"package.json">>)
    THEN CASE ArrIncludes(files, <<"react">>) -> "React Application"
           [] \E i \in 1..Len(files) : StrIncludes(files[i], "vue")
                -> "Vue Application"
           [] ArrIncludes(files, <<"angular.json">>) -> "Angular Application"
           [] OTHER -> "Node.js Project"
    ELSE CASE ArrIncludes(files, <<"requirements.txt">>)
              \/ ArrIncludes(files, <<"setup.py">>) -> "Python Project"
           [] ArrIncludes(files, <<"gemfile">>) -> "Ruby Project"
           [] ArrIncludes(files, <<"dockerfile">>) -> "Docker Project"
           [] ArrIncludes(files, <<"index.html">>) -> "Static Website"
           [] OTHER -> "Unknown Project Type"

\* analyzeTechStack of the simpler variant (part_000, lines 60-71).
analyzeTechStackSimple(files) ==
    LET label(b, l) == IF b THEN <<l>> ELSE <<>>
    IN  label(ArrIncludes(files, <<"package.json">>), "Node.js")
        \o label(ArrIncludes(files, <<"requirements.txt">>), "Python")
        \o label(ArrIncludes(files, <<"docker-compose.yml">>), "Docker")
        \o label(ArrIncludes(files, <<"kubernetes">>), "Kubernetes")
        \o label(ArrIncludes(files, <<"tailwind.config.js">>), "Tailwind CSS")
        \o label(\E i \in 1..Len(files) : StrIncludes(files[i], ".sql"), "SQL")

(***************************************************************************)
(* The payloads the hosting API returns in the runs of the whole analysis. *)
(***************************************************************************)
\* The names of the run's repository, in the order the API lists them.
RunFileOrder == << <<"Package.json">>, <<"package.json">>, <<"tailwind.config.js">> >>

RECURSIVE Ascending(_)
\* The members of a set of numbers, smallest first.
Ascending(S) ==
    IF S = {} THEN <<>>
    ELSE LET m == CHOOSE x \in S : \A y \in S : x <= y
         IN  <<m>> \o Ascending(S \ {m})

\* A listing as the API returns it: distinct names in the API's order, each
\* entry with or without a download_url (a directory has none).
RunListings ==
    { [k \in 1..Cardinality(S) |->
          [name |-> RunFileOrder[Ascending(S)[k]],
           download_url |-> f[Ascending(S)[k]]]] :
      <<S, f>> \in { <<S, f>> \in (SUBSET (1..Len(RunFileOrder)))
                                  \X [1..Len(RunFileOrder) -> BOOLEAN] :
                     /\ Cardinality(S) <= MaxFiles
                     /\ \A i \in (1..Len(RunFileOrder)) \ S : f[i] } }

\* A commit summary: stats may be missing.
CommitSummaries ==
    {[stats |-> FALSE, total |-> 0]} \cup {[stats |-> TRUE, total |-> t] : t \in {20, 30}}

CommitLists == UNION {[1..n -> CommitSummaries] : n \in 0..MaxCommits}

\* The sequential analyzeRepository reads only the length of its commits
\* (line 162): there a list stands for all the lists of its length.
CommitListsByLength ==
    UNION {[1..n -> {[stats |-> FALSE, total |-> 0]}] : n \in 0..MaxCommits}

Counts == 0..MaxCount

\* The repository metadata of the run.
RepoMeta == [name |-> "widgets", language |-> "TypeScript",
             updated_at |-> "2024-01-01T00:00:00Z"]
NoRepoData == [name |-> "", language |-> "", updated_at |-> ""]

\* A parsed package.json: each grouping may be missing.
DepNames == {"react", "jest"}
Groupings ==
    {[present |-> FALSE, keys |-> {}]} \cup [present : {TRUE}, keys : SUBSET DepNames]
Manifests == [dependencies : Groupings, devDependencies : Groupings]

\* packageData before package.json is parsed.
NoManifest == [dependencies |-> [present |-> FALSE, keys |-> {}],
               devDependencies |-> [present |-> FALSE, keys |-> {}]]

\* The values Math.random() takes: k / RandSteps.
Randoms == 0..(RandSteps - 1)

\* The values of Math.random() in the runs of the whole analysis: the
\* smallest and the largest.
RunRandoms == {0, RandSteps - 1}

(***************************************************************************)
(* Metric values.  A metric is a number, NaN, or the string 'N/A'; unit is *)
(* the suffix of the template string that formats it ("" for a number).    *)
(***************************************************************************)
Num(n, unit) == [kind |-> "num", n |-> n, unit |-> unit]
NaN(unit) == [kind |-> "NaN", n |-> 0, unit |-> unit]
NA == [kind |-> "N/A", n |-> 0, unit |-> ""]
Missing == [kind |-> "undefined", n |-> 0, unit |-> ""]

RECURSIVE SumTotals(_)
\* commits.reduce((acc, commit) => acc + (commit.stats || {total: 0}).total, 0)
SumTotals(list) ==
    IF list = <<>> THEN 0
    ELSE (IF list[1].stats THEN list[1].total ELSE 0) + SumTotals(Tail(list))

\* averageChurn dividing by the number of commits that have stats.
averageChurn_StatsOnly(list) ==
    [num |-> SumTotals(list),
     den |-> Cardinality({i \in 1..Len(list) : list[i].stats})]

\* averageChurn = totalChanges / commits.length, as a fraction; 0 / 0 is NaN.
averageChurn(list) == [num |-> SumTotals(list), den |-> Len(list)]

IsNaN(q) == q.den = 0

\* Math.floor(q / k), formatted with unit.
FloorDiv(q, k, unit) ==
    IF IsNaN(q) THEN NaN(unit) ELSE Num(q.num \div (q.den * k), unit)

\* Math.floor(q % k): the remainder of a non-negative fraction.
FloorMod(q, k) == (q.num \div q.den) % k

\* The catch branch of analyzeCodeQuality.
QualityNA == [testCoverage |-> NA, codeSmells |-> NA, technicalDebt |-> NA, duplications |-> NA]

NoQuality == [testCoverage |-> Missing, codeSmells |-> Missing,
              technicalDebt |-> Missing, duplications |-> Missing]

\* QualityOf with the random terms scaled to 0..100 and no upper limit.
QualityOf_WideRange(list, r1, r2) ==
    [testCoverage |-> Num(75 + ((100 * r1) \div RandSteps), "%"),
     codeSmells |-> FloorDiv(averageChurn(list), 10, ""),
     technicalDebt |-> FloorDiv(averageChurn(list), 20, " days"),
     duplications |-> Num(((100 * r2) \div RandSteps) + 2, "%")]

\* The try branch of analyzeCodeQuality (lines 26-37); r1 and r2 are the two
\* values of Math.random().
QualityOf(list, r1, r2) ==
    [testCoverage |-> Num(Min(95, 75 + ((20 * r1) \div RandSteps)), "%"),
     codeSmells |-> FloorDiv(averageChurn(list), 10, ""),
     technicalDebt |-> FloorDiv(averageChurn(list), 20, " days"),
     duplications |-> Num(Min(20, ((10 * r2) \div RandSteps) + 2), "%")]

\* analyzeCodeQuality on the outcome o of its commits request: any outcome
\* other than a 2xx JSON array ends in the catch branch (a rejected fetch or
\* json(), or reduce called on the error object of a non-2xx response).
analyzeCodeQuality(o, list, r1, r2) ==
    IF o = "ok" THEN QualityOf(list, r1, r2) ELSE QualityNA

\* metrics.quality of the Promise.all variant (lines 354-376).
QualityAll(list) ==
    LET avgCommitSize == averageChurn(list)
    IN  [testCoverage |-> IF IsNaN(avgCommitSize) THEN NaN("%")
                          ELSE Num(75 + FloorMod(avgCommitSize, 20), "%"),
         codeSmells |-> FloorDiv(avgCommitSize, 10, ""),
         technicalDebt |-> Missing,
         duplications |-> IF IsNaN(avgCommitSize) THEN NaN("%")
                          ELSE Num(Min(20, FloorMod(avgCommitSize, 10)), "%")]

(***************************************************************************)
(* Dependency health.                                                      *)
(***************************************************************************)
Deps(total, outdated, vulnerable) ==
    [present |-> TRUE, total |-> total, outdated |-> outdated, vulnerable |-> vulnerable]

ZeroDeps == Deps(0, 0, 0)

\* The Promise.all variant's profile has no dependencies.
NoDeps == [present |-> FALSE, total |-> 0, outdated |-> 0, vulnerable |-> 0]

\* findPackageJson taking the first entry of the listing, whatever its name.
findPackageJson_FirstEntry(files) == IF Len(files) > 0 THEN 1 ELSE 0

\* findPackageJson comparing the lower-cased names, as the classifier does.
findPackageJson_CaseInsensitive(files) ==
    IF \E i \in 1..Len(files) : toLowerCase(files[i].name) = <<"package.json">>
    THEN CHOOSE i \in 1..Len(files) :
             /\ toLowerCase(files[i].name) = <<"package.json">>
             /\ \A j \in 1..(i - 1) : toLowerCase(files[j].name) # <<"package.json">>
    ELSE 0

\* contents.find(file => file.name === 'package.json'): the index of the
\* first entry with exactly that name, 0 when there is none.
findPackageJson(files) ==
    IF \E i \in 1..Len(files) : files[i].name = <<"package.json">>
    THEN CHOOSE i \in 1..Len(files) :
             /\ files[i].name = <<"package.json">>
             /\ \A j \in 1..(i - 1) : files[j].name # <<"package.json">>
    ELSE 0

\* {...dependencies || {}, ...devDependencies || {}}: a missing grouping is empty.
KeysOf(g) == IF g.present THEN g.keys ELSE {}

\* CountDeps adding the sizes of the two groupings.
CountDeps_SumOfBoth(json) ==
    LET totalDeps == Cardinality(KeysOf(json.dependencies))
                     + Cardinality(KeysOf(json.devDependencies))
    IN  Deps(totalDeps, (totalDeps * 15) \div 100, (totalDeps * 2) \div 100)

\* Lines 58-67.
CountDeps(json) ==
    LET totalDeps == Cardinality(KeysOf(json.dependencies)
                                 \cup KeysOf(json.devDependencies))
    IN  Deps(totalDeps, (totalDeps * 15) \div 100, (totalDeps * 2) \div 100)

\* DependenciesOf with a catch branch that returns nothing.
DependenciesOf_NoReturn(o, json) ==
    IF o = "ok" THEN CountDeps(json) ELSE NoDeps

\* The result of analyzeDependencies once the manifest request ended with
\* outcome o: a rejected fetch, a non-2xx response and a rejected json() all
\* end in the catch branch (lines 75-82).
DependenciesOf(o, json) ==
    IF o = "ok" THEN CountDeps(json) ELSE ZeroDeps

(***************************************************************************)
(* Profiles and outcomes.                                                  *)
(***************************************************************************)
NoProfile == [status |-> "null"]

\* new Date(timestamp).toLocaleDateString(): the date as the locale and the
\* time zone of the browser write it.
toLocaleDateString(timestamp) == <<"toLocaleDateString", timestamp>>

\* ProfileSeq without the status property.
ProfileSeq_NoStatus(data, cls, quality, deps, nCommits, nPulls, nContributors) ==
    [name |-> data.name, type |-> cls.type, language |-> data.language,
     techStack |-> cls.techStack, codeQuality |-> quality, dependencies |-> deps,
     activity |-> [commits |-> nCommits, pullRequests |-> nPulls,
                   contributors |-> nContributors,
                   lastUpdate |-> toLocaleDateString(data.updated_at)],
     status |-> "undefined"]

\* The object analyzeRepository of the sequential variant returns (lines 153-169).
ProfileSeq(data, cls, quality, deps, nCommits, nPulls, nContributors) ==
    [name |-> data.name, type |-> cls.type, language |-> data.language,
     techStack |-> cls.techStack, codeQuality |-> quality, dependencies |-> deps,
     activity |-> [commits |-> nCommits, pullRequests |-> nPulls,
                   contributors |-> nContributors,
                   lastUpdate |-> toLocaleDateString(data.updated_at)],
     status |-> "ready"]

\* The object analyzeRepository of the Promise.all variant returns (lines
\* 357-379): no dependencies, no technicalDebt and no status.
ProfileAll(data, files, list, nPulls, nContributors) ==
    [name |-> data.name, type |-> ProjectTypeAll(files), language |-> data.language,
     techStack |-> TechStackAll(files), codeQuality |-> QualityAll(list),
     dependencies |-> NoDeps,
     activity |-> [commits |-> Len(list), pullRequests |-> nPulls,
                   contributors |-> nContributors,
                   lastUpdate |-> toLocaleDateString(data.updated_at)],
     status |-> "undefined"]

\* The properties of the profile p that have a value, by their path; a
\* property the returned object literal does not set reads as undefined.
ProfileKeys(p) ==
    {<<"name">>, <<"type">>, <<"language">>, <<"techStack">>, <<"quality">>}
    \cup {<<"activity", f>> : f \in DOMAIN p.activity}
    \cup (IF p.dependencies.present THEN {<<"dependencies">>} ELSE {})
    \cup (IF p.status # "undefined" THEN {<<"status">>} ELSE {})

NoOutcome == [kind |-> "none", message |-> "", profile |-> NoProfile]
Returned(p) == [kind |-> "profile", message |-> "", profile |-> p]
Thrown(msg) == [kind |-> "error", message |-> msg, profile |-> NoProfile]

(***************************************************************************)
(* The component.                                                          *)
(***************************************************************************)
Variants == {"seq", "all"}

\* The order of the awaits of the sequential analyzeRepository (lines 119-141).
SeqOrder == <<"repo", "contents", "commits", "pulls", "contributors">>

\* StartEndpoints with the fetches of the Promise.all variant awaited one by one.
StartEndpoints_OneByOne(v) == {SeqOrder[1]}

\* The requests analyzeRepository issues before its first await: the first
\* fetch (line 119), or the five calls of fetchGitHubData inside the array
\* handed to Promise.all (lines 337-343).
StartEndpoints(v) == IF v = "seq" THEN {SeqOrder[1]} ELSE PrimaryEndpoints

\* NextEndpoint with the fetch of the pull requests left out.
NextEndpoint_SkipPulls(ep) ==
    CASE ep = "repo" -> "contents"
      [] ep = "contents" -> "commits"
      [] ep = "commits" -> "contributors"
      [] OTHER -> "commits100"

\* The fetch that follows the one for ep in the sequential variant.
NextEndpoint(ep) ==
    LET i == CHOOSE k \in 1..Len(SeqOrder) : SeqOrder[k] = ep
    IN  IF i < Len(SeqOrder) THEN SeqOrder[i + 1] ELSE "commits100"

\* The payloads a successful request for ep can return.
PayloadsOf(ep) ==
    CASE ep = "repo" -> {RepoMeta}
      [] ep = "contents" -> RunListings
      [] ep = "commits" -> IF variant = "seq" THEN CommitListsByLength ELSE CommitLists
      [] ep = "commits100" -> CommitLists
      [] ep = "manifest" -> Manifests
      [] OTHER -> Counts

\* What a request for ep that ends with outcome o delivers: a failed request
\* delivers nothing, and the value standing for it is never read.
Payloads(ep, o) ==
    IF o = "ok" THEN PayloadsOf(ep) ELSE {CHOOSE v \in PayloadsOf(ep) : TRUE}

\* The values of Math.random() read after outcome o (none unless o is "ok").
RandomsRead(o) == IF o = "ok" THEN RunRandoms ELSE {0}

Issue(eps) ==
    /\ net' = [e \in Endpoints |-> IF e \in eps THEN "pending" ELSE net[e]]
    /\ issued' = [e \in Endpoints |-> IF e \in eps THEN issued[e] + 1 ELSE issued[e]]

\* The request for ep ends (done: "ok" or "failed") and the requests eps are issued.
SettleAndIssue(ep, done, eps) ==
    /\ net' = [e \in Endpoints |->
                  IF e \in eps THEN "pending" ELSE IF e = ep THEN done ELSE net[e]]
    /\ issued' = [e \in Endpoints |-> IF e \in eps THEN issued[e] + 1 ELSE issued[e]]

\* The locals of analyzeRepository are gone once it has returned or thrown.
DropLocals ==
    /\ ref' = NoRef
    /\ repoData' = NoRepoData
    /\ contents' = <<>>
    /\ commits' = <<>>
    /\ pullRequests' = 0
    /\ contributors' = 0
    /\ classification' = NoClassification
    /\ codeQuality' = NoQuality
    /\ packageData' = NoManifest

KeepLocals ==
    UNCHANGED <<ref, repoData, contents, commits, pullRequests, contributors,
                classification, codeQuality, packageData>>

\* Fail without the setLoading(false) that follows the catch.
Fail_KeepLoading(msg) ==
    /\ outcome' = Thrown(msg)
    /\ error' = msg
    /\ loading' = loading
    /\ pc' = "done"
    /\ DropLocals
    /\ UNCHANGED <<variant, repoUrl, previewData>>

\* analyzeRepository throws msg: the catch and finally of handlePreview
\* (lines 184-188, 392-395).
Fail(msg) ==
    /\ outcome' = Thrown(msg)
    /\ error' = msg
    /\ loading' = FALSE
    /\ pc' = "done"
    /\ DropLocals
    /\ UNCHANGED <<variant, repoUrl, previewData>>

\* Finish without the setLoading(false) that follows setPreviewData.
Finish_KeepLoading(p) ==
    /\ outcome' = Returned(p)
    /\ previewData' = p
    /\ loading' = loading
    /\ pc' = "done"
    /\ DropLocals
    /\ UNCHANGED <<variant, repoUrl, error>>

\* analyzeRepository returns p: setPreviewData(data) and setLoading(false)
\* (lines 182-188, 390-395).
Finish(p) ==
    /\ outcome' = Returned(p)
    /\ previewData' = p
    /\ loading' = FALSE
    /\ pc' = "done"
    /\ DropLocals
    /\ UNCHANGED <<variant, repoUrl, error>>

\* The component after construction (lines 5-8, 322-325), with url in the field.
InitWith(urls) ==
    /\ variant \in Variants
    /\ repoUrl \in urls
    /\ loading = FALSE
    /\ error = ""
    /\ previewData = NoProfile
    /\ pc = "idle"
    /\ net = [e \in Endpoints |-> "none"]
    /\ issued = [e \in Endpoints |-> 0]
    /\ ref = NoRef
    /\ repoData = NoRepoData
    /\ contents = <<>>
    /\ commits = <<>>
    /\ pullRequests = 0
    /\ contributors = 0
    /\ classification = NoClassification
    /\ codeQuality = NoQuality
    /\ packageData = NoManifest
    /\ outcome = NoOutcome

Init == InitWith({<<>>})

\* onChange of the input field (lines 214, 410), before the button is pressed.
SetRepoUrl(u) ==
    /\ pc = "idle"
    /\ repoUrl' = u
    /\ UNCHANGED <<variant, loading, error, previewData, pc, net, issued, outcome>>
    /\ KeepLocals

\* handlePreview with an empty field (lines 173-176, 383-386).
HandlePreviewEmpty ==
    /\ pc = "idle"
    /\ repoUrl = <<>>
    /\ error' = "Please enter a repository URL"
    /\ UNCHANGED <<variant, repoUrl, loading, previewData, pc, net, issued, outcome>>
    /\ KeepLocals

\* handlePreview of the sequential variant up to the first await of
\* analyzeRepository (lines 178-182, 116-119).
HandlePreviewSeq ==
    /\ pc = "idle"
    /\ variant = "seq"
    /\ repoUrl # <<>>
    /\ loading' = TRUE
    /\ error' = ""
    /\ ref' = parseRepoUrl(repoUrl)
    /\ Issue(StartEndpoints(variant))
    /\ pc' = "awaitPrimary"
    /\ UNCHANGED <<variant, repoUrl, previewData, repoData, contents, commits,
                   pullRequests, contributors, classification, codeQuality,
                   packageData, outcome>>

\* handlePreview of the Promise.all variant on a reference that is not valid
\* (lines 334-335): analyzeRepository throws before any fetch.
HandlePreviewInvalid ==
    /\ pc = "idle"
    /\ variant = "all"
    /\ repoUrl # <<>>
    /\ InvalidReference(parseRepoUrl(repoUrl))
    /\ Fail("Invalid repository URL")
    /\ UNCHANGED <<net, issued>>

\* handlePreview of the Promise.all variant up to the await of Promise.all
\* (lines 387-390, 334-343).
HandlePreviewAll ==
    /\ pc = "idle"
    /\ variant = "all"
    /\ repoUrl # <<>>
    /\ ~InvalidReference(parseRepoUrl(repoUrl))
    /\ loading' = TRUE
    /\ error' = ""
    /\ ref' = parseRepoUrl(repoUrl)
    /\ Issue(StartEndpoints(variant))
    /\ pc' = "awaitAll"
    /\ UNCHANGED <<variant, repoUrl, previewData, repoData, contents, commits,
                   pullRequests, contributors, classification, codeQuality,
                   packageData, outcome>>

HandlePreview ==
    \/ HandlePreviewEmpty
    \/ HandlePreviewSeq
    \/ HandlePreviewInvalid
    \/ HandlePreviewAll

\* The locals after the payload value of endpoint ep is assigned.
Store(ep, value) ==
    /\ repoData' = IF ep = "repo" THEN value ELSE repoData
    /\ contents' = IF ep = "contents" THEN value ELSE contents
    /\ commits' = IF ep = "commits" THEN value ELSE commits
    /\ pullRequests' = IF ep = "pulls" THEN value ELSE pullRequests
    /\ contributors' = IF ep = "contributors" THEN value ELSE contributors

\* Sequential variant: the awaited primary fetch for ep ends with outcome o
\* (lines 119-141).  A failure throws; otherwise the payload is kept and the
\* next fetch is issued; after the last one the listing is classified and
\* analyzeCodeQuality issues its own commits request (lines 144-148, 21-23).
SettlePrimarySeq(ep, o, value) ==
    /\ pc = "awaitPrimary"
    /\ net[ep] = "pending"
    /\ IF FetchError(SeqMessage, ep, o) # ""
       THEN /\ net' = [net EXCEPT ![ep] = Status(o)]
            /\ UNCHANGED issued
            /\ Fail(FetchError(SeqMessage, ep, o))
       ELSE /\ SettleAndIssue(ep, Status(o), {NextEndpoint(ep)})
            /\ Store(ep, value)
            /\ classification' =
                   IF NextEndpoint(ep) = "commits100"
                   THEN [type |-> determineProjectType(contents),
                         techStack |-> analyzeTechStack(contents)]
                   ELSE classification
            /\ pc' = IF NextEndpoint(ep) = "commits100" THEN "awaitQuality" ELSE pc
            /\ UNCHANGED <<variant, repoUrl, loading, error, previewData, ref,
                           codeQuality, packageData, outcome>>

\* Sequential variant: the commits request of analyzeCodeQuality ends (lines
\* 21-46); analyzeDependencies then looks for package.json and either fetches
\* it (lines 51-54) or returns the zeroed result, and the profile is returned.
SettleQuality(o, list, r1, r2) ==
    /\ pc = "awaitQuality"
    /\ net["commits100"] = "pending"
    /\ LET quality == analyzeCodeQuality(o, list, r1, r2)
           done == Status(o)
       IN  IF findPackageJson(contents) # 0
           THEN /\ SettleAndIssue("commits100", done, {"manifest"})
                /\ codeQuality' = quality
                /\ pc' = "awaitManifest"
                /\ UNCHANGED <<variant, repoUrl, loading, error, previewData, ref,
                               repoData, contents, commits, pullRequests,
                               contributors, classification, packageData, outcome>>
           ELSE /\ net' = [net EXCEPT !["commits100"] = done]
                /\ UNCHANGED issued
                /\ Finish(ProfileSeq(repoData, classification, quality, ZeroDeps,
                                     Len(commits), pullRequests, contributors))

\* Sequential variant: the package.json request ends (lines 54-82) and the
\* profile is returned (lines 153-169).
SettleManifest(o, json) ==
    /\ pc = "awaitManifest"
    /\ net["manifest"] = "pending"
    /\ net' = [net EXCEPT !["manifest"] = Status(o)]
    /\ UNCHANGED issued
    /\ Finish(ProfileSeq(repoData, classification, codeQuality,
                         DependenciesOf(o, json),
                         Len(commits), pullRequests, contributors))

\* Promise.all variant: one of the five fetches ends with outcome o (lines
\* 327-343).  The first failure rejects Promise.all; when the last of the
\* five has succeeded the profile is built (lines 345-379).
SettleAll(ep, o, value) ==
    /\ pc = "awaitAll"
    /\ net[ep] = "pending"
    /\ UNCHANGED issued
    /\ net' = [net EXCEPT ![ep] = Status(o)]
    /\ IF FetchError(AllMessage, ep, o) # ""
       THEN Fail(FetchError(AllMessage, ep, o))
       ELSE IF \A e \in PrimaryEndpoints \ {ep} : net[e] = "ok"
            THEN Finish(ProfileAll(
                     IF ep = "repo" THEN value ELSE repoData,
                     IF ep = "contents" THEN value ELSE contents,
                     IF ep = "commits" THEN value ELSE commits,
                     IF ep = "pulls" THEN value ELSE pullRequests,
                     IF ep = "contributors" THEN value ELSE contributors))
            ELSE /\ Store(ep, value)
                 /\ UNCHANGED <<variant, repoUrl, loading, error, previewData, pc,
                                ref, classification, codeQuality, packageData, outcome>>

\* Promise.all variant: a fetch still in flight when Promise.all was
\* rejected ends; nobody reads its result.
SettleLate(ep, o) ==
    /\ pc = "done"
    /\ net[ep] = "pending"
    /\ net' = [net EXCEPT ![ep] = Status(o)]
    /\ UNCHANGED <<variant, repoUrl, loading, error, previewData, pc, issued, outcome>>
    /\ KeepLocals

Next ==
    \/ \E u \in SampleUrls : SetRepoUrl(u)
    \/ HandlePreview
    \/ \E ep \in PrimaryEndpoints, o \in Outcomes :
           \E value \in Payloads(ep, o) : SettlePrimarySeq(ep, o, value)
    \/ \E o \in Outcomes :
           \E list \in Payloads("commits100", o), r1 \in RandomsRead(o), r2 \in RandomsRead(o) :
               SettleQuality(o, list, r1, r2)
    \/ \E o \in Outcomes :
           \E json \in Payloads("manifest", o) : SettleManifest(o, json)
    \/ \E ep \in PrimaryEndpoints, o \in Outcomes :
           \E value \in Payloads(ep, o) : SettleAll(ep, o, value)
    \/ \E ep \in PrimaryEndpoints, o \in Outcomes : SettleLate(ep, o)

Spec == Init /\ [][Next]_vars

(***************************************************************************)
(* The component over any number of clicks on the Preview button, with a   *)
(* few payloads: the state of the component outlives an invocation of      *)
(* handlePreview, the locals of the invocation do not.                     *)
(***************************************************************************)
\* The payloads of these runs: an empty listing or one with package.json,
\* one commit, no pull requests or contributors, one dependency.
ClickPayloadsOf(ep) ==
    CASE ep = "repo" -> {RepoMeta}
      [] ep = "contents" ->
             {<<>>, <<[name |-> <<"package.json">>, download_url |-> TRUE]>>}
      [] ep \in {"commits", "commits100"} -> {<<[stats |-> TRUE, total |-> 20]>>}
      [] ep = "manifest" ->
             {[dependencies |-> [present |-> TRUE, keys |-> {"react"}],
               devDependencies |-> [present |-> FALSE, keys |-> {}]]}
      [] OTHER -> {0}

ClickPayloads(ep, o) ==
    IF o = "ok" THEN ClickPayloadsOf(ep) ELSE {CHOOSE v \in ClickPayloadsOf(ep) : TRUE}

\* The button is disabled while loading (lines 221-224, 414-417).
ButtonEnabled == ~loading

\* onClick of the Preview button.
Click ==
    /\ ButtonEnabled
    /\ HandlePreview

\* handlePreview has returned: the component waits for the next click, and
\* nobody reads what becomes of the requests of the invocation that ended.
Rest ==
    /\ pc = "done"
    /\ pc' = "idle"
    /\ net' = [e \in Endpoints |-> "none"]
    /\ issued' = [e \in Endpoints |-> 0]
    /\ outcome' = NoOutcome
    /\ UNCHANGED <<variant, repoUrl, loading, error, previewData>>
    /\ KeepLocals

\* A request in flight ends.
Settle ==
    \/ \E ep \in PrimaryEndpoints, o \in Outcomes :
           \E value \in ClickPayloads(ep, o) : SettlePrimarySeq(ep, o, value)
    \/ \E o \in Outcomes :
           \E list \in ClickPayloads("commits100", o) : SettleQuality(o, list, 0, 0)
    \/ \E o \in Outcomes :
           \E json \in ClickPayloads("manifest", o) : SettleManifest(o, json)
    \/ \E ep \in PrimaryEndpoints, o \in Outcomes :
           \E value \in ClickPayloads(ep, o) : SettleAll(ep, o, value)
    \/ \E ep \in PrimaryEndpoints, o \in Outcomes : SettleLate(ep, o)

NextClicks ==
    \/ \E u \in SampleUrls : SetRepoUrl(u)
    \/ Click
    \/ Settle
    \/ Rest

SpecClicks == Init /\ [][NextClicks]_vars

\* The same when every request that was issued ends at some time.
SpecClicksFair == SpecClicks /\ WF_vars(Settle)

(***************************************************************************)
(* handlePreview alone, on every URL of the bound: the synchronous part of *)
(* an invocation, up to the first await.                                   *)
(***************************************************************************)
InitRef == InitWith(Urls)

NextRef == HandlePreview

SpecRef == InitRef /\ [][NextRef]_vars

(***************************************************************************)
(* The classifier alone, on every listing of the bound: lines 144-145.     *)
(***************************************************************************)
InitClassifyWith(variants) ==
    /\ variant \in variants
    /\ repoUrl = <<>>
    /\ loading = FALSE
    /\ error = ""
    /\ previewData = NoProfile
    /\ pc = "classify"
    /\ net = [e \in Endpoints |-> "none"]
    /\ issued = [e \in Endpoints |-> 0]
    /\ ref = NoRef
    /\ repoData = NoRepoData
    /\ contents \in AllListings
    /\ commits = <<>>
    /\ pullRequests = 0
    /\ contributors = 0
    /\ classification = NoClassification
    /\ codeQuality = NoQuality
    /\ packageData = NoManifest
    /\ outcome = NoOutcome

InitClassify == InitClassifyWith({"seq"})

\* ListingAfter with the names lower-cased in place.
ListingAfter_InPlace(files) ==
    [i \in 1..Len(files) |-> [files[i] EXCEPT !.name = toLowerCase(@)]]

\* The listing after the classifier ran on it: files.map() (lines 86, 103,
\* 345) builds a new array and writes to no entry of files.
ListingAfter(files) == files

\* determineProjectType(contents) and analyzeTechStack(contents), lines 144-145.
Classify ==
    /\ pc = "classify"
    /\ variant = "seq"
    /\ classification' = [type |-> determineProjectType(contents),
                          techStack |-> analyzeTechStack(contents)]
    /\ contents' = ListingAfter(contents)
    /\ pc' = "classified"
    /\ UNCHANGED <<variant, repoUrl, loading, error, previewData, net, issued, ref,
                   repoData, commits, pullRequests, contributors,
                   codeQuality, packageData, outcome>>

\* The two functions evaluated a second time on the same listing.
Reclassify ==
    /\ pc = "classified"
    /\ variant = "seq"
    /\ classification' = [type |-> determineProjectType(contents),
                          techStack |-> analyzeTechStack(contents)]
    /\ contents' = ListingAfter(contents)
    /\ pc' = "reclassified"
    /\ UNCHANGED <<variant, repoUrl, loading, error, previewData, net, issued, ref,
                   repoData, commits, pullRequests, contributors,
                   codeQuality, packageData, outcome>>

NextClassify == Classify \/ Reclassify

\* The type and the techStack the Promise.all variant computes inline (lines
\* 345-352, 360-362).
ClassifyAll ==
    /\ pc = "classify"
    /\ variant = "all"
    /\ classification' = [type |-> ProjectTypeAll(contents),
                          techStack |-> TechStackAll(contents)]
    /\ contents' = ListingAfter(contents)
    /\ pc' = "classified"
    /\ UNCHANGED <<variant, repoUrl, loading, error, previewData, net, issued, ref,
                   repoData, commits, pullRequests, contributors,
                   codeQuality, packageData, outcome>>

SpecClassify == InitClassify /\ [][NextClassify]_vars

(***************************************************************************)
(* The quality metrics alone, on every commit list of the bound and every  *)
(* value of Math.random(), computed twice from the same response.          *)
(***************************************************************************)
ChurnTotals == {0, 9, 25, 199}

QualityCommitLists ==
    UNION {[1..n -> {[stats |-> FALSE, total |-> 0]}
                    \cup {[stats |-> TRUE, total |-> t] : t \in ChurnTotals}] :
           n \in 0..MaxCommits}

\* The request whose commits the quality metrics are computed from: the one
\* of analyzeCodeQuality (line 21), or the commits fetch of Promise.all (line 340).
QualityEndpoint == IF variant = "seq" THEN "commits100" ELSE "commits"

InitQuality ==
    /\ variant \in Variants
    /\ repoUrl = <<>>
    /\ loading = FALSE
    /\ error = ""
    /\ previewData = NoProfile
    /\ pc = "measure"
    /\ net = [e \in Endpoints |-> "none"]
    /\ issued = [e \in Endpoints |-> 0]
    /\ ref = NoRef
    /\ repoData = NoRepoData
    /\ contents = <<>>
    /\ commits \in QualityCommitLists
    /\ pullRequests = 0
    /\ contributors = 0
    /\ classification = NoClassification
    /\ codeQuality = NoQuality
    /\ packageData = NoManifest
    /\ outcome = NoOutcome

\* The metrics computed from the response with outcome o and the list commits:
\* analyzeCodeQuality (lines 19-47) or metrics.quality (lines 354-376, reached
\* only when the commits fetch succeeded).
MeasureQuality(from, to, o, r1, r2) ==
    /\ pc = from
    /\ variant = "all" => o = "ok"
    /\ codeQuality' = IF variant = "seq" THEN analyzeCodeQuality(o, commits, r1, r2)
                      ELSE QualityAll(commits)
    /\ net' = [net EXCEPT ![QualityEndpoint] = Status(o)]
    /\ pc' = to
    /\ UNCHANGED <<variant, repoUrl, loading, error, previewData, issued, ref,
                   repoData, contents, commits, pullRequests, contributors,
                   classification, packageData, outcome>>

\* The values of Math.random() a computation reads: none in the catch
\* branch, and none in the Promise.all variant.
RandomsOf(o) == IF variant = "seq" /\ o = "ok" THEN Randoms ELSE {0}

Measure(o, r1, r2) ==
    /\ pc = "measure"
    /\ r1 \in RandomsOf(o) /\ r2 \in RandomsOf(o)
    /\ MeasureQuality("measure", "measured", o, r1, r2)

\* A second run that receives the same response as the first.
Remeasure(o, r1, r2) ==
    /\ pc = "measured"
    /\ r1 \in RandomsOf(o) /\ r2 \in RandomsOf(o)
    /\ Status(o) = net[QualityEndpoint]
    /\ MeasureQuality("measured", "remeasured", o, r1, r2)

NextQuality ==
    \E o \in Outcomes, r1 \in Randoms, r2 \in Randoms :
        \/ Measure(o, r1, r2)
        \/ Remeasure(o, r1, r2)

SpecQuality == InitQuality /\ [][NextQuality]_vars

(***************************************************************************)
(* The dependency counts alone, on parsed manifests with up to MaxKeys     *)
(* names: dependencies holds the names 1..i and devDependencies the names  *)
(* j..MaxKeys, and either grouping may be missing.                         *)
(***************************************************************************)
CountedManifests ==
    [dependencies :
         {[present |-> FALSE, keys |-> {}]}
         \cup {[present |-> TRUE, keys |-> 1..i] : i \in 0..MaxKeys},
     devDependencies :
         {[present |-> FALSE, keys |-> {}]}
         \cup {[present |-> TRUE, keys |-> j..MaxKeys] : j \in 1..(MaxKeys + 1)}]

InitDeps ==
    /\ variant = "seq"
    /\ repoUrl = <<>>
    /\ loading = FALSE
    /\ error = ""
    /\ previewData = NoProfile
    /\ pc = "count"
    /\ net = [e \in Endpoints |-> "none"]
    /\ issued = [e \in Endpoints |-> 0]
    /\ ref = NoRef
    /\ repoData = NoRepoData
    /\ contents = <<>>
    /\ commits = <<>>
    /\ pullRequests = 0
    /\ contributors = 0
    /\ classification = NoClassification
    /\ codeQuality = NoQuality
    /\ packageData \in CountedManifests
    /\ outcome = NoOutcome

\* analyzeDependencies once package.json is parsed (lines 58-67), and the
\* object the result is returned in (lines 153-169).
CountDependencies ==
    /\ pc = "count"
    /\ outcome' = Returned(ProfileSeq(repoData, classification, codeQuality,
                                      DependenciesOf("ok", packageData),
                                      Len(commits), pullRequests, contributors))
    /\ pc' = "counted"
    /\ UNCHANGED <<variant, repoUrl, loading, error, previewData, net, issued>>
    /\ KeepLocals

NextDeps == CountDependencies

SpecDeps == InitDeps /\ [][NextDeps]_vars

(***************************************************************************)
(* The classifier of the simpler variant (part_000) beside the one of the  *)
(* sequential variant, on every listing of the bound.                      *)
(***************************************************************************)
\* The object analyzeRepository of the simpler variant returns (part_000,
\* lines 37-43).
ProfileSimple(data, type, techStack) ==
    [name |-> data.name, type |-> type, language |-> data.language,
     techStack |-> techStack, status |-> "ready"]

\* The simpler variant on the listing the sequential variant has classified
\* (part_000, lines 33-43).
ClassifySimple ==
    /\ pc = "classified"
    /\ LET files == fileNamesOf(contents)
       IN  outcome' = Returned(ProfileSimple(repoData,
                                             determineProjectTypeSimple(files),
                                             analyzeTechStackSimple(files)))
    /\ pc' = "compared"
    /\ UNCHANGED <<variant, repoUrl, loading, error, previewData, net, issued>>
    /\ KeepLocals

NextCompare == Classify \/ ClassifySimple

SpecCompare == InitClassify /\ [][NextCompare]_vars

(***************************************************************************)
(* The tech stack of both variants, on every listing of the bound.         *)
(***************************************************************************)
InitStack == InitClassifyWith(Variants)

NextStack == Classify \/ ClassifyAll

SpecStack == InitStack /\ [][NextStack]_vars

(***************************************************************************)
(* Properties.                                                             *)
(***************************************************************************)
OtherPrimary == PrimaryEndpoints \ {"repo"}

\* The six resources of the specification and the requests that fetch each
\* (lines 119, 124, 129 and 21, 134, 139; lines 338-342): none fetches branches.
Resources == {"repoMeta", "contents", "commits", "pullRequests", "contributors", "branches"}

EndpointsOf(r) ==
    CASE r = "repoMeta" -> {"repo"}
      [] r = "contents" -> {"contents"}
      [] r = "commits" -> {"commits", "commits100"}
      [] r = "pullRequests" -> {"pulls"}
      [] r = "contributors" -> {"contributors"}
      [] OTHER -> {}

RECURSIVE SumIssued(_)
SumIssued(eps) ==
    IF eps = {} THEN 0
    ELSE LET e == CHOOSE x \in eps : TRUE IN issued[e] + SumIssued(eps \ {e})

\* How many requests for resource r were issued.
Requested(r) == SumIssued(EndpointsOf(r))

WellFormed(url) == ~InvalidReference(parseRepoUrl(url))

QualityMetrics(p) ==
    {p.codeQuality.testCoverage, p.codeQuality.codeSmells,
     p.codeQuality.technicalDebt, p.codeQuality.duplications}

\* C1: once the request for the repository metadata has failed, the analysis
\* has ended in an error and no profile was returned or shown, whatever
\* became of the other requests.
C1_MetaFailureIsFatal ==
    net["repo"] = "failed" =>
        /\ outcome.kind = "error"
        /\ outcome.profile = NoProfile
        /\ previewData = NoProfile

\* The metadata request failed after the four other primary requests succeeded.
C1_Witness ==
    /\ net["repo"] = "failed"
    /\ \A e \in OtherPrimary : net[e] = "ok"

\* C2: with a well-formed reference and the metadata fetched, an analysis in
\* which another primary request failed still ends in a profile with status
\* "ready", the quality metrics "N/A" when it was the commits request and the
\* count 0 when it was a counted resource.
C2_OtherFailuresDegrade ==
    ( /\ pc = "done"
      /\ WellFormed(repoUrl)
      /\ net["repo"] = "ok"
      /\ \E e \in OtherPrimary : net[e] = "failed" ) =>
        /\ outcome.kind = "profile"
        /\ outcome.profile.status = "ready"
        /\ net["commits"] = "failed" =>
               /\ outcome.profile.codeQuality = QualityNA
               /\ outcome.profile.activity.commits = 0
        /\ net["pulls"] = "failed" => outcome.profile.activity.pullRequests = 0
        /\ net["contributors"] = "failed" => outcome.profile.activity.contributors = 0

\* A URL with fewer than 5 segments or an empty 5th segment.
BadShape(url) == Len(Split(url)) < 5 \/ Split(url)[5] = <<>>

\* C3: an analysis started on a URL with fewer than 5 segments or an empty 5th
\* segment fails with 'Invalid repository URL' and issues no request.
C3_BadShapeNoRequest ==
    (pc # "idle" /\ BadShape(repoUrl)) =>
        /\ error = "Invalid repository URL"
        /\ \A e \in Endpoints : issued[e] = 0

\* C4 as claimed: no primary request waits for another one; once one of them
\* has ended, every primary request has been issued.
C4_NoIssueWaitsForAnother ==
    (\E e \in PrimaryEndpoints : net[e] \in {"ok", "failed"}) =>
        \A e \in PrimaryEndpoints : issued[e] > 0

\* C4 as amended: in the Promise.all variant the five primary requests are
\* issued together, before any of them has ended; in the sequential variant
\* a primary request is issued only once the one before it has succeeded.
C4_IssuedTogetherInAllVariant ==
    /\ variant = "all" =>
           ((\E e \in PrimaryEndpoints : net[e] # "none") =>
                \A e \in PrimaryEndpoints : issued[e] = 1)
    /\ variant = "seq" =>
           \A i \in 2..Len(SeqOrder) :
               issued[SeqOrder[i]] > 0 => net[SeqOrder[i - 1]] = "ok"

\* All five primary requests are in flight at once.
C4_Witness == \A e \in PrimaryEndpoints : net[e] = "pending"

\* C5: the analysis of a well-formed reference has an outcome only when every
\* primary request has been issued and has ended.
C5_OutcomeAfterAllSettled ==
    (outcome.kind # "none" /\ WellFormed(repoUrl)) =>
        \A e \in PrimaryEndpoints : net[e] \in {"ok", "failed"}

\* An analysis that returned a profile and in which no request failed.
AllSucceeded ==
    /\ outcome.kind = "profile"
    /\ \A e \in Endpoints : net[e] # "failed"

\* C6 as claimed: when every fetch succeeded, each of the six resources was
\* requested exactly once.
C6_EachResourceOnce ==
    AllSucceeded => \A r \in Resources : Requested(r) = 1

\* C6 as amended: when every fetch succeeded, the metadata, the contents, the
\* pull requests and the contributors were requested exactly once, the
\* commits once in the Promise.all variant and twice in the sequential one,
\* and the branches never.
C6_RequestsPerResource ==
    AllSucceeded =>
        /\ \A r \in {"repoMeta", "contents", "pullRequests", "contributors"} :
               Requested(r) = 1
        /\ Requested("commits") = IF variant = "seq" THEN 2 ELSE 1
        /\ Requested("branches") = 0

\* A sequential analysis in which every request, the manifest's too, succeeded.
C6_Witness ==
    /\ AllSucceeded
    /\ variant = "seq"
    /\ net["manifest"] = "ok"

\* The lower-cased names of the listing.
LowerNames == {toLowerCase(contents[i].name) : i \in 1..Len(contents)}

HasManifestName == <<"package.json">> \in LowerNames
HasReactMarker == \E n \in LowerNames : \E i \in 1..Len(n) : n[i] = "react"
HasVueMarker == \E n \in LowerNames : \E i \in 1..Len(n) : n[i] = "vue"
HasAngularMarker == <<"angular.json">> \in LowerNames

\* C7 as claimed: the listing [package.json, next.config.js] is classified
\* as "Next.js Application".
C7_NextJsExample ==
    ( /\ pc = "classified"
      /\ Len(contents) = 2
      /\ contents[1].name = <<"package.json">>
      /\ contents[2].name = <<"next.config.js">> ) =>
        classification.type = "Next.js Application"

\* C7 as amended: a listing with package.json and a framework marker the
\* classifier knows (a name containing "react", a name containing "vue",
\* angular.json, in that order) gets that framework's label and not the
\* generic one; with no such marker, next.config.js included, it gets
\* "Node.js Project".
C7_KnownFrameworkBeatsGeneric ==
    (pc = "classified" /\ HasManifestName) =>
        classification.type =
            CASE HasReactMarker -> "React Application"
              [] HasVueMarker -> "Vue Application"
              [] HasAngularMarker -> "Angular Application"
              [] OTHER -> "Node.js Project"

\* A listing with package.json and a Vue marker was classified.
C7_Witness ==
    /\ pc = "classified"
    /\ HasManifestName
    /\ HasVueMarker
    /\ ~HasReactMarker
    /\ classification.type = "Vue Application"

\* C8: no quality metric of a returned profile is NaN, and a profile built
\* from an empty commit list has every quality metric it reports "N/A".
C8_EmptyCommitsGiveNA ==
    outcome.kind = "profile" =>
        /\ \A m \in QualityMetrics(outcome.profile) : m.kind # "NaN"
        /\ (variant = "all" /\ outcome.profile.activity.commits = 0) =>
               \A m \in QualityMetrics(outcome.profile) : m.kind \in {"N/A", "undefined"}

\* No entry of the listing is named exactly package.json.
NoManifestEntry == \A i \in 1..Len(contents) : contents[i].name # <<"package.json">>

\* C9: when analyzeDependencies is reached with a listing that has no entry
\* named exactly package.json, the analysis returns its profile in that step,
\* with dependencies {total: 0, outdated: 0, vulnerable: 0}, and no manifest
\* request is issued.
C9_NoManifestZeroDeps ==
    [][ (pc = "awaitQuality" /\ pc' # "awaitQuality" /\ NoManifestEntry) =>
            /\ pc' = "done"
            /\ outcome'.kind = "profile"
            /\ outcome'.profile.dependencies = ZeroDeps
            /\ issued'["manifest"] = 0
            /\ net'["manifest"] = "none" ]_vars

\* A profile returned without a manifest request although the classifier saw
\* a manifest (Package.json, which find() does not match).
C9_Witness ==
    /\ outcome.kind = "profile"
    /\ variant = "seq"
    /\ issued["manifest"] = 0
    /\ outcome.profile.type = "Node.js Project"

\* C10: once the manifest request has failed (transport error, non-2xx, or a
\* body that does not parse), the analysis has returned a profile with status
\* "ready" and dependencies {total: 0, outdated: 0, vulnerable: 0}.
C10_ManifestFailureZeroDeps ==
    net["manifest"] = "failed" =>
        /\ pc = "done"
        /\ outcome.kind = "profile"
        /\ outcome.profile.status = "ready"
        /\ outcome.profile.dependencies = ZeroDeps
        /\ previewData = outcome.profile

\* The manifest request failed and the profile was returned.
C10_Witness ==
    /\ net["manifest"] = "failed"
    /\ outcome.kind = "profile"

\* The fields of RepositoryProfile: name, projectType, language, techStack,
\* quality, dependencies, the five fields of activity, and status.
RepositoryProfileFields ==
    {<<"name">>, <<"type">>, <<"language">>, <<"techStack">>, <<"quality">>,
     <<"dependencies">>, <<"status">>}
    \cup {<<"activity", f>> :
              f \in {"commits", "branches", "pullRequests", "contributors", "lastUpdate"}}

\* C11 as claimed: every returned profile has all the fields of
\* RepositoryProfile, and its status is "ready".
C11_AllFieldsPresent ==
    outcome.kind = "profile" =>
        /\ RepositoryProfileFields \subseteq ProfileKeys(outcome.profile)
        /\ outcome.profile.status = "ready"

\* C11 as amended: a profile of the sequential variant has every field of
\* RepositoryProfile except activity.branches, and status "ready"; a profile
\* of the Promise.all variant has neither activity.branches nor dependencies
\* nor status; and an analysis that issued requests ends in a profile exactly
\* when none of its primary requests failed, and in an error otherwise.
C11_ProfileShape ==
    /\ outcome.kind = "profile" =>
           /\ ProfileKeys(outcome.profile) =
                  RepositoryProfileFields
                  \ (IF variant = "seq" THEN {<<"activity", "branches">>}
                     ELSE {<<"activity", "branches">>, <<"dependencies">>, <<"status">>})
           /\ outcome.profile.status = (IF variant = "seq" THEN "ready" ELSE "undefined")
    /\ (pc = "done" /\ issued["repo"] > 0) =>
           /\ outcome.kind \in {"profile", "error"}
           /\ outcome.kind = "profile" <=> \A e \in PrimaryEndpoints : net[e] = "ok"

\* A sequential analysis returned its profile although the commits request
\* of the quality metrics had failed.
C11_Witness ==
    /\ outcome.kind = "profile"
    /\ variant = "seq"
    /\ net["commits100"] = "failed"
    /\ outcome.profile.status = "ready"
    /\ outcome.profile.codeQuality = QualityNA

\* The locals of the end-to-end scenario: the metadata of "widgets", the
\* listing [package.json, tailwind.config.js] with no download_url, two
\* commits, no pull requests and no contributors.
EndToEndScenario ==
    /\ repoData = RepoMeta
    /\ contents = << [name |-> <<"package.json">>, download_url |-> FALSE],
                     [name |-> <<"tailwind.config.js">>, download_url |-> FALSE] >>
    /\ Len(commits) = 2
    /\ pullRequests = 0
    /\ contributors = 0

\* C12: the step that ends the analysis of the end-to-end scenario returns a
\* profile with status "ready", projectType "Node.js Project", a techStack
\* with "Node.js" and "Tailwind CSS", the counts commits 2 / branches 0 /
\* pullRequests 0 / contributors 0 and dependencies {0, 0, 0}, and no
\* manifest request was issued.
C12_EndToEndScenario ==
    [][ (EndToEndScenario /\ pc \in {"awaitQuality", "awaitManifest"} /\ pc' = "done") =>
            /\ outcome'.kind = "profile"
            /\ outcome'.profile.status = "ready"
            /\ outcome'.profile.type = "Node.js Project"
            /\ {"Node.js", "Tailwind CSS"} \subseteq
                   {outcome'.profile.techStack[i] : i \in 1..Len(outcome'.profile.techStack)}
            /\ outcome'.profile.activity.commits = 2
            /\ outcome'.profile.activity.pullRequests = 0
            /\ outcome'.profile.activity.contributors = 0
            /\ outcome'.profile.dependencies = ZeroDeps
            /\ issued'["manifest"] = 0 ]_vars

NodeFamily ==
    {"React Application", "Vue Application", "Angular Application", "Node.js Project"}

HasPythonMarker == <<"requirements.txt">> \in LowerNames \/ <<"setup.py">> \in LowerNames
HasRubyMarker == <<"gemfile">> \in LowerNames
HasContainerMarker == <<"dockerfile">> \in LowerNames
HasStaticSiteMarker == <<"index.html">> \in LowerNames

\* The markers of the priority list that determineProjectType has no rule
\* for: Go, Rust, PHP, Java, and orchestration.
HasGoRustPhpJavaMarker ==
    \E n \in {<<"go.mod">>, <<"cargo.toml">>, <<"composer.json">>, <<"pom.xml">>} :
        n \in LowerNames
HasOrchestrationMarker ==
    <<"docker-compose.yml">> \in LowerNames \/ <<"kubernetes">> \in LowerNames

\* C14 as claimed: the label is that of the first marker present in the order
\* Node.js manifest, Python, Ruby, Go, Rust, PHP, Java, container,
\* orchestration, static site, and it is "Unknown Project Type" exactly when
\* none of these markers is present.
C14_SpecPriorityOrder ==
    pc = "classified" =>
        /\ classification.type = "Unknown Project Type" <=>
               ~(\/ HasManifestName \/ HasPythonMarker \/ HasRubyMarker
                 \/ HasGoRustPhpJavaMarker \/ HasContainerMarker
                 \/ HasOrchestrationMarker \/ HasStaticSiteMarker)
        /\ HasManifestName => classification.type \in NodeFamily
        /\ (~HasManifestName /\ HasPythonMarker) => classification.type = "Python Project"
        /\ (~HasManifestName /\ ~HasPythonMarker /\ HasRubyMarker) =>
               classification.type = "Ruby Project"
        /\ (~HasManifestName /\ ~HasPythonMarker /\ ~HasRubyMarker
               /\ ~HasGoRustPhpJavaMarker /\ HasContainerMarker) =>
               classification.type = "Docker Project"
        /\ (~HasManifestName /\ ~HasPythonMarker /\ ~HasRubyMarker
               /\ ~HasGoRustPhpJavaMarker /\ ~HasContainerMarker
               /\ ~HasOrchestrationMarker /\ HasStaticSiteMarker) =>
               classification.type = "Static Website"

\* C14 as amended: the label is that of the first marker present in the order
\* package.json (a label of the Node.js family), requirements.txt or
\* setup.py, gemfile, dockerfile, index.html, and it is "Unknown Project
\* Type" exactly when none of these five markers is present, whatever other
\* files (go.mod, cargo.toml, composer.json, pom.xml, docker-compose.yml,
\* kubernetes) the listing has.
C14_CodePriorityOrder ==
    pc = "classified" =>
        /\ classification.type = "Unknown Project Type" <=>
               ~(\/ HasManifestName \/ HasPythonMarker \/ HasRubyMarker
                 \/ HasContainerMarker \/ HasStaticSiteMarker)
        /\ HasManifestName <=> classification.type \in NodeFamily
        /\ (~HasManifestName /\ HasPythonMarker) => classification.type = "Python Project"
        /\ (~HasManifestName /\ ~HasPythonMarker /\ HasRubyMarker) =>
               classification.type = "Ruby Project"
        /\ (~HasManifestName /\ ~HasPythonMarker /\ ~HasRubyMarker
               /\ HasContainerMarker) =>
               classification.type = "Docker Project"
        /\ (~HasManifestName /\ ~HasPythonMarker /\ ~HasRubyMarker
               /\ ~HasContainerMarker /\ HasStaticSiteMarker) =>
               classification.type = "Static Website"

\* A listing with a Python marker and the Ruby marker was labelled by the
\* Python rule.
C14_Witness ==
    /\ pc = "classified"
    /\ HasPythonMarker
    /\ HasRubyMarker
    /\ classification.type = "Python Project"

\* The listings with the same entries as files, in any order, with at most
\* one entry more than files has (so one of them written twice).
Rearrangements(files) ==
    LET entries == {files[i] : i \in 1..Len(files)}
    IN  {l \in UNION {[1..n -> entries] : n \in Len(files)..(Len(files) + 1)} :
            {l[i] : i \in 1..Len(l)} = entries}

\* The techStack the running variant computes for files, as a set.
StackLabelsOf(files) ==
    LET stack == IF variant = "seq" THEN analyzeTechStack(files) ELSE TechStackAll(files)
    IN  {stack[i] : i \in 1..Len(stack)}

\* C15: the techStack of a classified listing has no label twice; a label is
\* in it exactly when its indicator matches the lower-cased names (Node.js:
\* package.json, Python: requirements.txt, Docker: docker-compose.yml,
\* Kubernetes: kubernetes, in the sequential variant only, Tailwind CSS:
\* tailwind.config.js, SQL: a name containing ".sql"), whatever the
\* projectType and however many indicators match; and every listing with the
\* same entries in another order or with an entry repeated gets the same set.
C15_StackByMembership ==
    pc = "classified" =>
        LET stack == classification.techStack
            labels == {stack[i] : i \in 1..Len(stack)}
        IN  /\ Cardinality(labels) = Len(stack)
            /\ "Node.js" \in labels <=> <<"package.json">> \in LowerNames
            /\ "Python" \in labels <=> <<"requirements.txt">> \in LowerNames
            /\ "Docker" \in labels <=> <<"docker-compose.yml">> \in LowerNames
            /\ "Kubernetes" \in labels <=>
                   (variant = "seq" /\ <<"kubernetes">> \in LowerNames)
            /\ "Tailwind CSS" \in labels <=> <<"tailwind.config.js">> \in LowerNames
            /\ "SQL" \in labels <=>
                   \E n \in LowerNames : \E i \in 1..Len(n) : n[i] = ".sql"
            /\ labels \subseteq {"Node.js", "Python", "Docker", "Kubernetes",
                                  "Tailwind CSS", "SQL"}
            /\ \A other \in Rearrangements(contents) : StackLabelsOf(other) = labels

\* Two indicators matched at once, the second listed before the first.
C15_Witness ==
    /\ pc = "classified"
    /\ Len(contents) = 2
    /\ contents[1].name = <<"schema", ".sql">>
    /\ contents[2].name = <<"Package.json">>
    /\ classification.techStack = <<"Node.js", "SQL">>

RECURSIVE TotalUpTo(_, _)
\* The sum of stats.total over the first n commits of list, a commit without
\* stats counting 0.
TotalUpTo(list, n) ==
    IF n = 0 THEN 0
    ELSE TotalUpTo(list, n - 1) + (IF list[n].stats THEN list[n].total ELSE 0)

\* The metrics were computed from a successful response.
Measured == pc \in {"measured", "remeasured"} /\ net[QualityEndpoint] = "ok"

\* C16: for every non-empty commit list, with T the sum of the stats.total
\* (0 for a commit without stats) and L the number of commits, codeSmells is
\* the integer k with 10 k <= T / L < 10 (k + 1), and technicalDebt (which
\* only the sequential variant reports) is "d days" for the integer d with
\* 20 d <= T / L < 20 (d + 1).
C16_ChurnMetrics ==
    (Measured /\ Len(commits) > 0) =>
        LET T == TotalUpTo(commits, Len(commits))
            L == Len(commits)
            smells == codeQuality.codeSmells
            debt == codeQuality.technicalDebt
        IN  /\ smells.kind = "num" /\ smells.unit = ""
            /\ 10 * smells.n * L <= T /\ T < 10 * (smells.n + 1) * L
            /\ variant = "seq" =>
                   /\ debt.kind = "num" /\ debt.unit = " days"
                   /\ 20 * debt.n * L <= T /\ T < 20 * (debt.n + 1) * L

\* Two commits, one without stats and one with 199 changes: 9 code smells
\* and 4 days.
C16_Witness ==
    /\ Measured
    /\ variant = "seq"
    /\ commits = <<[stats |-> FALSE, total |-> 0], [stats |-> TRUE, total |-> 199]>>
    /\ codeQuality.codeSmells = Num(9, "")
    /\ codeQuality.technicalDebt = Num(4, " days")

\* C17: a numeric testCoverage is at most 95% and a numeric duplication at
\* most 20%, for every commit list and every value of Math.random().
C17_EstimatesBounded ==
    pc \in {"measured", "remeasured"} =>
        /\ codeQuality.testCoverage.kind = "num" =>
               /\ codeQuality.testCoverage.n <= 95
               /\ codeQuality.testCoverage.unit = "%"
        /\ codeQuality.duplications.kind = "num" =>
               /\ codeQuality.duplications.n <= 20
               /\ codeQuality.duplications.unit = "%"

\* The largest values of Math.random() were drawn.
C17_Witness ==
    /\ Measured
    /\ variant = "seq"
    /\ codeQuality.testCoverage.kind = "num"
    /\ codeQuality.testCoverage.n = 75 + ((20 * (RandSteps - 1)) \div RandSteps)
    /\ codeQuality.duplications.n = 2 + ((10 * (RandSteps - 1)) \div RandSteps)

\* C18: a second run that receives the same response as the first computes
\* the same testCoverage, codeSmells, technicalDebt and duplications.
C18_SameInputsSameMetrics ==
    [][ (pc = "measured" /\ pc' = "remeasured") => codeQuality' = codeQuality ]_vars

\* C19: for a parsed manifest, total is the number of distinct names in
\* dependencies or devDependencies (a name in both counted once, a missing
\* grouping holding none), outdated is floor(15% of total) and vulnerable is
\* floor(2% of total).
C19_DependencyCounts ==
    pc = "counted" =>
        LET d == outcome.profile.dependencies
            inDeps(k) == packageData.dependencies.present
                         /\ k \in packageData.dependencies.keys
            inDev(k) == packageData.devDependencies.present
                        /\ k \in packageData.devDependencies.keys
            names == {k \in 1..MaxKeys : inDeps(k) \/ inDev(k)}
        IN  /\ d.present
            /\ d.total = Cardinality(names)
            /\ 100 * d.outdated <= 15 * d.total /\ 15 * d.total < 100 * (d.outdated + 1)
            /\ 100 * d.vulnerable <= 2 * d.total /\ 2 * d.total < 100 * (d.vulnerable + 1)

\* Every name is in the manifest, some in both groupings, and the counts of
\* outdated and vulnerable dependencies are not zero.
C19_Witness ==
    /\ pc = "counted"
    /\ packageData.dependencies.keys \cap packageData.devDependencies.keys # {}
    /\ outcome.profile.dependencies.total = MaxKeys
    /\ outcome.profile.dependencies.outdated = 7
    /\ outcome.profile.dependencies.vulnerable = 1

\* C20 as claimed: the manifest request does not wait for the code-quality
\* computation: while the commits request of analyzeCodeQuality is in flight
\* and the listing has an entry named package.json, the manifest request has
\* been issued.
C20_ManifestNotAfterQuality ==
    (pc = "awaitQuality" /\ ~NoManifestEntry) => issued["manifest"] > 0

\* C20 as amended: the manifest request is issued at most once, only after
\* the contents fetch has succeeded, only for a listing with an entry named
\* exactly package.json, and only once the commits request of
\* analyzeCodeQuality has ended: the two are never in flight together.
C20_ManifestAfterContentsAndQuality ==
    /\ issued["manifest"] <= 1
    /\ issued["manifest"] > 0 =>
           /\ variant = "seq"
           /\ pc \in {"awaitManifest", "done"}
           /\ net["contents"] = "ok"
           /\ net["commits100"] \in {"ok", "failed"}
    /\ net["manifest"] = "pending" <=> pc = "awaitManifest"
    /\ pc = "awaitManifest" => ~NoManifestEntry
    /\ ~(net["commits100"] = "pending" /\ net["manifest"] = "pending")

\* The manifest request is in flight after the commits request of
\* analyzeCodeQuality failed, for a listing that also has Package.json.
C20_Witness ==
    /\ net["manifest"] = "pending"
    /\ net["commits100"] = "failed"
    /\ Len(contents) = 2
    /\ contents[1].name = <<"Package.json">>

\* An analysis was started and has not ended.
InFlight == pc \in {"awaitPrimary", "awaitAll", "awaitQuality", "awaitManifest"}

\* C21: when every request issued ends at some time, an analysis that was
\* started ends: it has returned a profile, which is shown with no error, or
\* thrown one error, which is shown with no profile, and loading is false.
C21_AnalysisEnds ==
    InFlight ~>
        /\ pc = "done"
        /\ loading = FALSE
        /\ \/ /\ outcome.kind = "profile"
              /\ outcome.profile # NoProfile /\ previewData = outcome.profile
              /\ outcome.message = "" /\ error = ""
           \/ /\ outcome.kind = "error"
              /\ outcome.profile = NoProfile
              /\ outcome.message # "" /\ error = outcome.message

\* An analysis that followed a successful one ended in an error after three
\* of its requests had succeeded.
C21_Witness ==
    /\ pc = "done"
    /\ loading = FALSE
    /\ outcome.kind = "error"
    /\ variant = "seq"
    /\ net["pulls"] = "failed"
    /\ previewData # NoProfile

C23_ErrorAndPreviewExclusive ==
    ~(error # "" /\ previewData # NoProfile)

\* C24: when analyzeDependencies is reached with a listing the classifier
\* took for one with a package.json manifest (a projectType of the Node.js
\* family and "Node.js" in the techStack), it finds the manifest entry and
\* issues the manifest request.
C24_ManifestDetectionConsistent ==
    [][ ( /\ pc = "awaitQuality" /\ pc' # "awaitQuality"
          /\ classification.type \in NodeFamily
          /\ \E i \in 1..Len(classification.techStack) :
                 classification.techStack[i] = "Node.js" ) =>
            /\ pc' = "awaitManifest"
            /\ issued'["manifest"] = 1
            /\ net'["manifest"] = "pending" ]_vars

\* C25: the simpler variant and the sequential variant give every listing
\* the same projectType and the same techStack.
C25_SameClassification ==
    pc = "compared" =>
        /\ outcome.profile.type = classification.type
        /\ outcome.profile.techStack = classification.techStack

====
